---- MODULE Spec2Model ----
(***************************************************************************)
(* TransRoomer: the workflow templating (app/workflow_manager.py), the     *)
(* generation orchestrator (app/img2img.py) and the API host               *)
(* (app/main.py).                                                          *)
(*                                                                         *)
(* Texts (file names, prompts, prefixes) are sequences of tokens: the      *)
(* pieces a name falls into when split at "_".  A Python float is written  *)
(* as the rational <<numerator, denominator>>, in lowest terms, it is the  *)
(* nearest double to; DivError gives the rounding error of the division    *)
(* that is not exact in doubles.                                           *)
(***************************************************************************)
EXTENDS Integers, Sequences, FiniteSets, TLC

VARIABLES
    \* ---- WorkflowManager (app/workflow_manager.py) ----
    topdict,        \* heap of top-level dict objects: object id -> (node key -> node address)
    nodeobj,        \* heap of node objects: address -> [class_type, inputs]
    loaded,         \* the graph json.load returned at construction (kept for comparison)
    cwpc,           \* per caller: position inside create_custom_workflow
    cwargs,         \* per caller: the arguments of the running create_custom_workflow call
    workflow,       \* per caller: the local variable `workflow` (an object id)
    \* ---- ComfyUI orchestrator (app/img2img.py) and its environment ----
    call,           \* per generate_image invocation: its position and local variables
    now,            \* the wall clock, in seconds (int(time.time()))
    ticks,          \* number of clock advances so far
    inputDir,       \* engine input directory: file name -> content
    outputDir,      \* engine output directory: the set of files in it
    finalDir,       \* DATA_OUTPUT_DIR: file name -> content
    jobs,           \* the engine's jobs, in order of submission (prompt_id = index)
    \* ---- API host (app/main.py) ----
    loop,           \* the request handler occupying the event loop (0: none)
    response,       \* per request: the response sent ("none" before)
    health          \* number of /health requests answered

wmvars == <<topdict, nodeobj, loaded, cwpc, cwargs, workflow>>
envvars == <<now, ticks, inputDir, outputDir, finalDir, jobs>>
hostvars == <<loop, response, health>>
orchvars == <<call, now, ticks, inputDir, outputDir, finalDir, jobs, loop, response, health>>

vars == <<topdict, nodeobj, loaded, cwpc, cwargs, workflow,
          call, now, ticks, inputDir, outputDir, finalDir, jobs,
          loop, response, health>>

-----------------------------------------------------------------------------
(* Bounds of the model *)

MaxSeed == 2          \* seeds are drawn from 1..MaxSeed
MaxTicks == 2         \* clock advances per behaviour
MaxHealth == 1        \* /health requests per behaviour
StartTime == 100      \* the clock's value in the initial state

-----------------------------------------------------------------------------
(* Numbers *)

Abs(x) == IF x < 0 THEN -x ELSE x

RECURSIVE Gcd(_, _)
Gcd(a, b) == IF b = 0 THEN a ELSE Gcd(b, a % b)

\* n / d as a float, d # 0
Rat(n, d) ==
    LET g == Gcd(Abs(n), Abs(d))
        sgn == IF d < 0 THEN -1 ELSE 1
    IN  <<sgn * (n \div g), sgn * (d \div g)>>

Min2(a, b) == IF a <= b THEN a ELSE b

\* floor(log2(s)) for s >= 1
RECURSIVE Log2(_)
Log2(s) == IF s <= 1 THEN 0 ELSE 1 + Log2(s \div 2)

\* 2^k mod s
RECURSIVE Pow2Mod(_, _)
Pow2Mod(k, s) == IF k = 0 THEN 1 % s ELSE (2 * Pow2Mod(k - 1, s)) % s

\* bits in the significand of a Python float (IEEE 754 double)
Mantissa == 53

\* The double 1024 / s, for an integer s >= 1 with e = floor(log2(s)), is
\* M * 2^(10 - Mantissa - e), where M is the integer nearest to
\* 2^(Mantissa + e) / s.  DivError(s) is M * s - 2^(Mantissa + e): zero when
\* the division is exact, and otherwise the amount, in units of
\* 2^(10 - Mantissa - e), by which s times the double differs from 1024.
\* (No tie occurs: 2^(Mantissa + e) mod s is never s / 2.)
DivError(s) ==
    LET R == Pow2Mod(Mantissa + Log2(s), s)
    IN  IF 2 * R < s THEN 0 - R ELSE s - R

-----------------------------------------------------------------------------
(* Slot values of a node's "inputs" dict *)

Str(t) == [kind |-> "str", node |-> "", idx |-> 0, s |-> t, n |-> 0, d |-> 1]
Num(q) == [kind |-> "num", node |-> "", idx |-> 0, s |-> <<>>, n |-> q[1], d |-> q[2]]
Ref(k, i) == [kind |-> "ref", node |-> k, idx |-> i, s |-> <<>>, n |-> 0, d |-> 1]

Node(ct, ins) == [class_type |-> ct, inputs |-> ins]

\* dict.update(upd) on an inputs dict
DictUpdate(ins, upd) ==
    [sl \in (DOMAIN ins) \cup (DOMAIN upd) |->
        IF sl \in DOMAIN upd THEN upd[sl] ELSE ins[sl]]

\* g[k]["inputs"][sl] = v
SetSlot(g, k, sl, v) ==
    [g EXCEPT ![k] = Node(g[k].class_type, DictUpdate(g[k].inputs, sl :> v))]

\* dict.pop(k, None) on a graph
Pop(g, k) == [x \in (DOMAIN g) \ {k} |-> g[x]]

-----------------------------------------------------------------------------
(* Paths and the files behind them.  A path is [dir, stem]; the stem is    *)
(* the token sequence of the file name without its extension.              *)

Path(dr, st) == [dir |-> dr, stem |-> st]

PathA == Path("inputs", <<"input", "aa", "7">>)
PathB == Path("inputs", <<"input", "bb", "7">>)
PathC == Path("inputs", <<"input", "cc", "8">>)
PathD == Path("inputs", <<"room">>)
PathE == Path("inputs", <<"input", "ee", "5">>)
PathZ == Path("inputs", <<"input", "zz", "9">>)

Paths == {PathA, PathB, PathC, PathD, PathE, PathZ}

\* What the file system holds at each path: PathA, PathB and PathE are
\* readable images, PathC is a file PIL cannot read, PathD is an image that
\* reports a zero side, PathZ does not exist.
FileInfo(p) ==
    CASE p = PathA -> [exists |-> TRUE, readable |-> TRUE, w |-> 2048, h |-> 1536]
      [] p = PathB -> [exists |-> TRUE, readable |-> TRUE, w |-> 512, h |-> 768]
      [] p = PathC -> [exists |-> TRUE, readable |-> FALSE, w |-> 0, h |-> 0]
      [] p = PathD -> [exists |-> TRUE, readable |-> TRUE, w |-> 0, h |-> 640]
      [] p = PathE -> [exists |-> TRUE, readable |-> TRUE, w |-> 64, h |-> 49]
      [] OTHER -> [exists |-> FALSE, readable |-> FALSE, w |-> 0, h |-> 0]

\* pathlib: Path.exists(), Path.name (the extension is the same for all)
Exists(p) == FileInfo(p).exists
Name(p) == p.stem

-----------------------------------------------------------------------------
(* The workflow template (workflows/virtual_staging_workflow.json)         *)

BaseRes == 1024

BoundKeys == {"2", "22", "25", "7", "213", "126", "10", "17", "216"}
ExpectedKeys == BoundKeys \cup {"131", "26"}

TplBase ==
    ("2" :> Node("LoadImage", ("image" :> Str(<<"example">>))))
    @@ ("213" :> Node("ImageScaleBy",
            ("image" :> Ref("2", 0)) @@ ("factor" :> Num(Rat(1, 1)))))
    @@ ("7" :> Node("CheckpointLoaderSimple", ("ckpt_name" :> Str(<<"sdxl">>))))
    @@ ("22" :> Node("CLIPTextEncode",
            ("text" :> Str(<<>>)) @@ ("clip" :> Ref("7", 1))))
    @@ ("10" :> Node("ControlNetApply",
            ("strength" :> Num(Rat(1, 1))) @@ ("image" :> Ref("213", 0))
            @@ ("conditioning" :> Ref("22", 0))))
    @@ ("17" :> Node("ControlNetApply",
            ("strength" :> Num(Rat(1, 1))) @@ ("image" :> Ref("213", 0))
            @@ ("conditioning" :> Ref("10", 0))))
    @@ ("216" :> Node("ControlNetApply",
            ("strength" :> Num(Rat(1, 1))) @@ ("image" :> Ref("213", 0))
            @@ ("conditioning" :> Ref("17", 0))))
    @@ ("25" :> Node("KSampler",
            ("seed" :> Num(Rat(0, 1))) @@ ("denoise" :> Num(Rat(1, 1)))
            @@ ("model" :> Ref("7", 0)) @@ ("positive" :> Ref("216", 0))))
    @@ ("26" :> Node("VAEDecode",
            ("samples" :> Ref("25", 0)) @@ ("vae" :> Ref("7", 2))))
    @@ ("131" :> Node("ImageScaleBy",
            ("image" :> Ref("26", 0)) @@ ("factor" :> Num(Rat(1, 1)))))
    @@ ("126" :> Node("SaveImage",
            ("images" :> Ref("131", 0)) @@ ("filename_prefix" :> Str(<<"out">>))))

\* the template with one expected node missing
TplWithout(k) == Pop(TplBase, k)

\* the template with a preview node that also reads the upscale node
TplPreview ==
    TplBase @@ ("300" :> Node("PreviewImage", ("images" :> Ref("131", 0))))

\* a template without decode node in which every reference resolves
TplNoDecode ==
    SetSlot(Pop(TplBase, "26"), "131", "image", Ref("25", 0))

\* an acyclic template in which the decode node reads the save node
TplLoop ==
    SetSlot(SetSlot(TplBase, "126", "images", Ref("2", 0)),
            "26", "mask", Ref("126", 0))

Templates ==
    {TplBase, TplPreview, TplNoDecode, TplLoop}
    \cup {TplWithout(k) : k \in ExpectedKeys}

-----------------------------------------------------------------------------
(* WorkflowManager.create_custom_workflow on graph values                  *)

CHECKPOINT_NAME == <<"juggernautxlRagnarok.k3mq.safetensors">>

\* _get_image_dimensions: the image's size, 1024x1024 when it cannot be read
GetImageDimensions(p) ==
    IF FileInfo(p).exists /\ FileInfo(p).readable
    THEN <<FileInfo(p).w, FileInfo(p).h>>
    ELSE <<1024, 1024>>

\* faulty variant, for comparison: "furniture" is not in the first list
ControlSettingsNoFurniture(task_type) ==
    IF task_type \in {"add", "replace"}
    THEN <<Rat(8, 100), Rat(90, 100)>>
    ELSE IF task_type \in {"material", "surface"}
         THEN <<Rat(10, 100), Rat(85, 100)>>
         ELSE <<Rat(12, 100), Rat(85, 100)>>

\* the if/elif chain on task_type: <<controlnet_strength, denoise>>
ControlSettings(task_type) ==
    IF task_type \in {"add", "replace", "furniture"}
    THEN <<Rat(8, 100), Rat(90, 100)>>
    ELSE IF task_type \in {"material", "surface"}
         THEN <<Rat(10, 100), Rat(85, 100)>>
         ELSE <<Rat(12, 100), Rat(85, 100)>>

\* faulty variant, for comparison: the division without the guard
InputScaleFactorUnguarded(p) ==
    LET dims == GetImageDimensions(p)
        shortest_side == Min2(dims[1], dims[2])
    IN  Rat(1024, shortest_side)

InputScaleFactor(p) ==
    LET dims == GetImageDimensions(p)
        shortest_side == Min2(dims[1], dims[2])
    IN  IF shortest_side > 0 THEN Rat(1024, shortest_side) ELSE Rat(1, 1)

\* faulty variant, for comparison: the quotient upside down
FinalScaleFactorInverse(target_resolution) == Rat(1024, target_resolution)

FinalScaleFactor(target_resolution) == Rat(target_resolution, 1024)

\* faulty variant, for comparison: the seed is also written into the
\* filename prefix of the save node
NodeUpdatesSeedInPrefix(a, seed) ==
    LET cs == ControlSettings(a.task_type)
    IN  ("2" :> ("image" :> Str(Name(a.input_image_path))))
        @@ ("22" :> ("text" :> Str(a.prompt)))
        @@ ("25" :> (("seed" :> Num(Rat(seed, 1))) @@ ("denoise" :> Num(cs[2]))))
        @@ ("7" :> ("ckpt_name" :> Str(CHECKPOINT_NAME)))
        @@ ("213" :> ("factor" :> Num(InputScaleFactor(a.input_image_path))))
        @@ ("126" :> ("filename_prefix" :> Str(a.output_prefix \o <<ToString(seed)>>)))
        @@ ("10" :> ("strength" :> Num(cs[1])))
        @@ ("17" :> ("strength" :> Num(cs[1])))
        @@ ("216" :> ("strength" :> Num(cs[1])))

\* node_updates: node key -> slot -> value
NodeUpdates(a, seed) ==
    LET cs == ControlSettings(a.task_type)
    IN  ("2" :> ("image" :> Str(Name(a.input_image_path))))
        @@ ("22" :> ("text" :> Str(a.prompt)))
        @@ ("25" :> (("seed" :> Num(Rat(seed, 1))) @@ ("denoise" :> Num(cs[2]))))
        @@ ("7" :> ("ckpt_name" :> Str(CHECKPOINT_NAME)))
        @@ ("213" :> ("factor" :> Num(InputScaleFactor(a.input_image_path))))
        @@ ("126" :> ("filename_prefix" :> Str(a.output_prefix)))
        @@ ("10" :> ("strength" :> Num(cs[1])))
        @@ ("17" :> ("strength" :> Num(cs[1])))
        @@ ("216" :> ("strength" :> Num(cs[1])))

\* the loop "for node_id, inputs in node_updates.items()"
ApplyUpdates(g, upd) ==
    [k \in DOMAIN g |->
        IF k \in DOMAIN upd
        THEN Node(g[k].class_type, DictUpdate(g[k].inputs, upd[k]))
        ELSE g[k]]

\* faulty variant, for comparison: a tolerance of one pixel on either side
IsBaseResTol(target_resolution) == Abs(target_resolution - BaseRes) <= 1

\* faulty variant, for comparison: no upscale stage for any target up to 1024
IsBaseResBelow(target_resolution) == target_resolution <= BaseRes

IsBaseRes(target_resolution) == Abs(target_resolution - BaseRes) < 1

\* faulty variant, for comparison: the upscale branch wires the edge the wrong way round
TopologyReversed(g, target_resolution) ==
    IF IsBaseRes(target_resolution)
    THEN IF "126" \notin DOMAIN g
         THEN [raised |-> TRUE, g |-> g]
         ELSE [raised |-> FALSE,
               g |-> Pop(SetSlot(g, "126", "images", Ref("26", 0)), "131")]
    ELSE IF "131" \in DOMAIN g
         THEN LET g1 == SetSlot(g, "131", "factor",
                                Num(FinalScaleFactor(target_resolution)))
              IN  IF "126" \notin DOMAIN g
                  THEN [raised |-> TRUE, g |-> g1]
                  ELSE [raised |-> FALSE,
                        g |-> SetSlot(g1, "131", "image", Ref("126", 0))]
         ELSE [raised |-> FALSE, g |-> g]

\* the topology step: [raised, g]; raised is the KeyError of workflow["126"],
\* g is the graph as the step left it
Topology(g, target_resolution) ==
    IF IsBaseRes(target_resolution)
    THEN IF "126" \notin DOMAIN g
         THEN [raised |-> TRUE, g |-> g]
         ELSE [raised |-> FALSE,
               g |-> Pop(SetSlot(g, "126", "images", Ref("26", 0)), "131")]
    ELSE IF "131" \in DOMAIN g
         THEN LET g1 == SetSlot(g, "131", "factor",
                                Num(FinalScaleFactor(target_resolution)))
              IN  IF "126" \notin DOMAIN g
                  THEN [raised |-> TRUE, g |-> g1]
                  ELSE [raised |-> FALSE,
                        g |-> SetSlot(g1, "126", "images", Ref("131", 0))]
         ELSE [raised |-> FALSE, g |-> g]

\* the whole call on a template value: deep copy, bind, rewire
CreateCustomWorkflow(tpl, a, seed) ==
    Topology(ApplyUpdates(tpl, NodeUpdates(a, seed)), a.target_resolution)

-----------------------------------------------------------------------------
(* Graph predicates *)

RefsOf(g, k) ==
    {g[k].inputs[sl].node : sl \in {x \in DOMAIN g[k].inputs : g[k].inputs[x].kind = "ref"}}

\* every input reference names a node of the graph
NoDangling(g) == \A k \in DOMAIN g : RefsOf(g, k) \subseteq DOMAIN g

\* the nodes reachable from the set S along input references, in at most n steps
RECURSIVE Reach(_, _, _)
Reach(g, S, n) ==
    IF n = 0 THEN S
    ELSE LET T == S \cup UNION {RefsOf(g, k) \cap DOMAIN g : k \in S \cap DOMAIN g}
         IN  IF T = S THEN S ELSE Reach(g, T, n - 1)

\* k depends on m: m is reached from k's inputs
DependsOn(g, k, m) ==
    k \in DOMAIN g /\ m \in Reach(g, RefsOf(g, k) \cap DOMAIN g, Cardinality(DOMAIN g))

Acyclic(g) == \A k \in DOMAIN g : ~DependsOn(g, k, k)

-----------------------------------------------------------------------------
(* WorkflowManager as objects: the template and every copy live in a heap  *)
(* of dict objects, so that what a call writes through `workflow` is seen  *)
(* by whoever holds the same objects.                                      *)

Callers == {1, 2}
SeqCallers == {1}

NoneObj == "None"
base_workflow == "base"             \* the object self.base_workflow names
\* faulty variant, for comparison: one dict object serves every call
WfIdShared(c) == "wf1"

\* the object a call's deepcopy creates
WfId(c) == IF c = 1 THEN "wf1" ELSE "wf2"

Prompts == {<<"cozy", "loft">>}
Prefixes == {<<"vs", "temp", "7", "100", "">>}
Targets == {0, 1023, 1024, 1025, 2048}
TaskTypes == {"add", "replace", "furniture", "material", "surface", "style", "other"}

CwArgs ==
    [prompt : Prompts, input_image_path : Paths, output_prefix : Prefixes,
     target_resolution : Targets, task_type : TaskTypes]

NoArgs ==
    [prompt |-> <<>>, input_image_path |-> PathZ, output_prefix |-> <<>>,
     target_resolution |-> 0, task_type |-> ""]

Seeds == 1..MaxSeed

\* the graph value a top-level dict object holds
Deref(id) == [k \in DOMAIN topdict[id] |-> nodeobj[topdict[id][k]]]

\* __init__ / _load_base_workflow: the parsed template becomes the object "base"
LoadBaseWorkflow(tpl) ==
    /\ loaded = tpl
    /\ topdict = (base_workflow :> [k \in DOMAIN tpl |-> <<base_workflow, k>>])
    /\ nodeobj = [a \in {<<base_workflow, k>> : k \in DOMAIN tpl} |-> tpl[a[2]]]

\* faulty variant, for comparison: copy.copy, a new top-level dict over the template's node objects
ShallowCopy(c) ==
    [top |-> topdict[base_workflow], nodes |-> <<>>]

\* copy.deepcopy(self.base_workflow): a new top-level dict and new node objects
DeepCopy(c) ==
    LET src == topdict[base_workflow]
    IN  [top |-> [k \in DOMAIN src |-> <<WfId(c), k>>],
         nodes |-> [a \in {<<WfId(c), k>> : k \in DOMAIN src} |-> nodeobj[src[a[2]]]]]

\* writing the graph value g through the top-level dict object id
StoreTop(id, g) ==
    [topdict EXCEPT ![id] = [k \in DOMAIN g |-> topdict[id][k]]]

StoreNodes(id, g) ==
    [a \in DOMAIN nodeobj |->
        IF \E k \in DOMAIN g : topdict[id][k] = a
        THEN g[CHOOSE k \in DOMAIN g : topdict[id][k] = a]
        ELSE nodeobj[a]]

-----------------------------------------------------------------------------
(* The orchestrator's data: invocations, directories, the engine           *)

Calls == {1, 2}

Timeout == 600

\* stem.split("_")[-1]: the last piece of the stem (split never returns an
\* empty list, so the IndexError branch is not reachable)
Number(p) ==
    LET parts == p.stem
    IN  parts[Len(parts)]

\* DATA_OUTPUT_DIR / f"virtual_staging_{number}.png"
FinalOutputPath(number) == <<"virtual", "staging", number>>

\* f"vs_temp_{number}_{int(time.time())}_"
TempPrefix(number, t) == <<"vs", "temp", number, ToString(t), "">>

StagedNames == {Name(p) : p \in Paths}
FinalNames == {FinalOutputPath(Number(p)) : p \in Paths}

\* a file of the engine output directory; its name is
\* f"{prefix}_{counter}_{tag}" and content tells which job wrote it
OutFile(pre, cnt, tg, ct) == [prefix |-> pre, counter |-> cnt, tag |-> tg, content |-> ct]
FileName(f) == f.prefix \o <<ToString(f.counter), f.tag>>
JobContent(j) == IF j = 1 THEN "job1" ELSE IF j = 2 THEN "job2" ELSE "job3"

\* faulty variant, for comparison: the glob pattern without the trailing "*"
StartsWithWhole(name, pre) == name = pre

\* str.startswith on names: the pieces before the last piece of the prefix
\* are equal and the last piece of the prefix starts the corresponding piece
\* of the name (every prefix used ends in "_", i.e. in an empty last piece)
StartsWith(name, pre) ==
    /\ Len(name) >= Len(pre)
    /\ \A i \in 1..(Len(pre) - 1) : name[i] = pre[i]
    /\ Len(pre) > 0 => (pre[Len(pre)] = "" \/ pre[Len(pre)] = name[Len(pre)])

\* the local variables of one generate_image invocation, with two records of
\* its traffic: posts counts the POST /prompt requests it has issued,
\* last_poll tells how its latest GET /history/{prompt_id} ended ("failed":
\* no usable answer, "absent" / "present": the answer lacked / held the job id)
NoCall ==
    [pc |-> "idle", prompt |-> <<>>, input_image_path |-> PathZ,
     target_resolution |-> 0, task_type |-> "",
     number |-> "", temp_prefix |-> <<>>, comfy_input_path |-> <<>>,
     workflow |-> <<>>, prompt_id |-> 0, start_time |-> 0,
     generated_filename |-> <<>>, exc |-> "", msg |-> "", ret |-> <<>>,
     posts |-> 0, last_poll |-> "none"]

\* GenerateImageResponse, and the request not answered yet
Response(ok, err, img) == [sent |-> TRUE, success |-> ok, error |-> err, image_path |-> img]
NoResponse == [sent |-> FALSE, success |-> FALSE, error |-> "", image_path |-> <<>>]

\* the requests the model draws from
Req(pr, p, t, tt) ==
    [prompt |-> pr, input_image_path |-> p, target_resolution |-> t, task_type |-> tt]

Requests ==
    { Req(<<"cozy", "loft">>, PathA, 1024, "style"),
      Req(<<"cozy", "loft">>, PathA, 2048, "add"),
      Req(<<"cozy", "loft">>, PathB, 1024, "style"),
      Req(<<"cozy", "loft">>, PathA, 0, "style"),
      Req(<<"cozy", "loft">>, PathZ, 1024, "style") }

\* the templates the orchestrator is run on
OrchTemplates == {TplBase, TplWithout("22"), TplWithout("126")}

\* the state of the orchestrator, its environment and the host at start
OrchInit ==
    /\ call = [c \in Calls |-> NoCall]
    /\ now = StartTime
    /\ ticks = 0
    /\ \E pre \in {"absent", "foreign"} :
          inputDir = [nm \in StagedNames |-> IF nm = Name(PathA) THEN pre ELSE "absent"]
    /\ outputDir = {}
    /\ finalDir = [nm \in FinalNames |-> "absent"]
    /\ jobs = <<>>
    /\ loop = 0
    /\ response = [c \in Calls |-> NoResponse]
    /\ health = 0

-----------------------------------------------------------------------------
(* create_custom_workflow, statement by statement, on the objects *)

\* line 78: workflow = copy.deepcopy(self.base_workflow)
CwCopy(c, a) ==
    /\ cwpc[c] = "idle"
    /\ LET cp == DeepCopy(c)
       IN  /\ topdict' = (WfId(c) :> cp.top) @@ topdict
           /\ nodeobj' = cp.nodes @@ nodeobj
    /\ workflow' = [workflow EXCEPT ![c] = WfId(c)]
    /\ cwargs' = [cwargs EXCEPT ![c] = a]
    /\ cwpc' = [cwpc EXCEPT ![c] = "bind"]
    /\ UNCHANGED <<loaded, orchvars>>

\* lines 80-124: settings, calculations, seed, node_updates, apply updates
CwBind(c, seed) ==
    /\ cwpc[c] = "bind"
    /\ LET g == ApplyUpdates(Deref(workflow[c]), NodeUpdates(cwargs[c], seed))
       IN  nodeobj' = StoreNodes(workflow[c], g)
    /\ cwpc' = [cwpc EXCEPT ![c] = "topology"]
    /\ UNCHANGED <<topdict, loaded, cwargs, workflow, orchvars>>

\* lines 126-142: topology optimization, then return (or the KeyError)
CwTopology(c) ==
    /\ cwpc[c] = "topology"
    /\ LET r == Topology(Deref(workflow[c]), cwargs[c].target_resolution)
       IN  /\ nodeobj' = StoreNodes(workflow[c], r.g)
           /\ topdict' = StoreTop(workflow[c], r.g)
           /\ cwpc' = [cwpc EXCEPT ![c] = IF r.raised THEN "raised" ELSE "returned"]
    /\ UNCHANGED <<loaded, cwargs, workflow, orchvars>>

\* the caller drops the result: objects only this call referenced are collected
CwRelease(c) ==
    /\ cwpc[c] \in {"returned", "raised"}
    /\ topdict' = [id \in (DOMAIN topdict) \ {WfId(c)} |-> topdict[id]]
    /\ nodeobj' = [a \in {x \in DOMAIN nodeobj : x[1] # WfId(c)} |-> nodeobj[a]]
    /\ workflow' = [workflow EXCEPT ![c] = NoneObj]
    /\ cwargs' = [cwargs EXCEPT ![c] = NoArgs]
    /\ cwpc' = [cwpc EXCEPT ![c] = "idle"]
    /\ UNCHANGED <<loaded, orchvars>>

CwInit ==
    /\ cwpc = [c \in Callers |-> "idle"]
    /\ cwargs = [c \in Callers |-> NoArgs]
    /\ workflow = [c \in Callers |-> NoneObj]

InitWM ==
    /\ \E tpl \in Templates : LoadBaseWorkflow(tpl)
    /\ CwInit
    /\ OrchInit
    /\ inputDir = [nm \in StagedNames |-> "absent"]

NextWM ==
    \E c \in SeqCallers :
        \/ \E a \in CwArgs : CwCopy(c, a)
        \/ \E seed \in Seeds : CwBind(c, seed)
        \/ CwTopology(c)
        \/ CwRelease(c)

SpecWM == InitWM /\ [][NextWM]_vars

-----------------------------------------------------------------------------
(* SpecWMConc: two threads inside create_custom_workflow of the one        *)
(* WorkflowManager, interleaved statement by statement                     *)

ConcTemplates == {TplBase, TplPreview, TplWithout("131"), TplWithout("126")}

ConcArgs ==
    { [prompt |-> <<"cozy", "loft">>, input_image_path |-> PathA,
       output_prefix |-> <<"vs", "temp", "7", "100", "">>,
       target_resolution |-> 1024, task_type |-> "style"],
      [prompt |-> <<"cozy", "loft">>, input_image_path |-> PathB,
       output_prefix |-> <<"vs", "temp", "7", "100", "">>,
       target_resolution |-> 2048, task_type |-> "add"],
      [prompt |-> <<"cozy", "loft">>, input_image_path |-> PathC,
       output_prefix |-> <<"vs", "temp", "8", "100", "">>,
       target_resolution |-> 1024, task_type |-> "material"] }

InitWMConc ==
    /\ \E tpl \in ConcTemplates : LoadBaseWorkflow(tpl)
    /\ CwInit
    /\ OrchInit
    /\ inputDir = [nm \in StagedNames |-> "absent"]

NextWMConc ==
    \E c \in Callers :
        \/ \E a \in ConcArgs : CwCopy(c, a)
        \/ \E seed \in Seeds : CwBind(c, seed)
        \/ CwTopology(c)
        \/ CwRelease(c)

SpecWMConc == InitWMConc /\ [][NextWMConc]_vars

-----------------------------------------------------------------------------
(* ComfyUI.generate_image, step by step                                    *)

StageOutcomes == {"ok", "fail_clean", "fail_partial"}
PostOutcomes == {"ok", "http_error", "conn_error", "bad_body", "hang"}
GetOutcomes == {"answer", "transient", "hang"}
RunKinds == {"ok", "temp_first", "mangled", "no_file", "no_outputs"}

\* faulty variant, for comparison: an exception leaves the call at once,
\* without the finally block
RaiseNoFinally(c, e, m) == [call EXCEPT ![c].exc = e, ![c].msg = m, ![c].pc = "done"]

\* an exception inside the try block: control passes to the finally block
Raise(c, e, m) == [call EXCEPT ![c].exc = e, ![c].msg = m, ![c].pc = "cleanup"]

\* faulty variant, for comparison: no existence check before the try block
EnterNoCheck(c, r) ==
    /\ call[c].pc = "idle"
    /\ call' = [call EXCEPT ![c] =
            [NoCall EXCEPT !.pc = "stage", !.prompt = r.prompt,
                !.input_image_path = r.input_image_path,
                !.target_resolution = r.target_resolution,
                !.task_type = r.task_type,
                !.number = Number(r.input_image_path),
                !.temp_prefix = TempPrefix(Number(r.input_image_path), now)]]

\* lines 48-60: the existence check, number, final_output_path, temp_prefix
Enter(c, r) ==
    /\ call[c].pc = "idle"
    /\ IF ~Exists(r.input_image_path)
       THEN call' = [call EXCEPT ![c] =
                [NoCall EXCEPT !.pc = "done", !.prompt = r.prompt,
                    !.input_image_path = r.input_image_path,
                    !.target_resolution = r.target_resolution,
                    !.task_type = r.task_type,
                    !.exc = "FileNotFoundError", !.msg = "Input image not found"]]
       ELSE call' = [call EXCEPT ![c] =
                [NoCall EXCEPT !.pc = "stage", !.prompt = r.prompt,
                    !.input_image_path = r.input_image_path,
                    !.target_resolution = r.target_resolution,
                    !.task_type = r.task_type,
                    !.number = Number(r.input_image_path),
                    !.temp_prefix = TempPrefix(Number(r.input_image_path), now)]]

\* generate_image called directly
G_Enter(c, r) ==
    /\ Enter(c, r)
    /\ UNCHANGED <<wmvars, envvars, hostvars>>

\* lines 64, 92-96: shutil.copy2 into INPUT_DIR / source.name; the copy may
\* fail before it creates the target or after it has written part of it, and
\* comfy_input_path is assigned only when _copy_to_comfy_input returns
G_Stage(c, o) ==
    /\ call[c].pc = "stage"
    /\ LET target == Name(call[c].input_image_path)
       IN  CASE o = "ok" ->
                 /\ inputDir' = [inputDir EXCEPT ![target] = "staged"]
                 /\ call' = [call EXCEPT ![c].comfy_input_path = target,
                                         ![c].pc = "instantiate"]
             [] o = "fail_partial" ->
                 /\ inputDir' = [inputDir EXCEPT ![target] = "partial"]
                 /\ call' = Raise(c, "OSError", "copy failed")
             [] OTHER ->
                 /\ inputDir' = inputDir
                 /\ call' = Raise(c, "OSError", "copy failed")
    /\ UNCHANGED <<wmvars, now, ticks, outputDir, finalDir, jobs, hostvars>>

\* lines 67-73: the call of create_custom_workflow on the shared template
G_Instantiate(c, seed) ==
    /\ call[c].pc = "instantiate"
    /\ LET a == [prompt |-> call[c].prompt,
                 input_image_path |-> call[c].input_image_path,
                 output_prefix |-> call[c].temp_prefix,
                 target_resolution |-> call[c].target_resolution,
                 task_type |-> call[c].task_type]
           r == CreateCustomWorkflow(Deref(base_workflow), a, seed)
       IN  IF r.raised
           THEN call' = Raise(c, "KeyError", "126")
           ELSE call' = [call EXCEPT ![c].workflow = r.g, ![c].pc = "submit"]
    /\ UNCHANGED <<wmvars, envvars, hostvars>>

\* lines 76, 98-106: _queue_prompt; requests.post is given no timeout
G_Submit(c, o) ==
    /\ call[c].pc = "submit"
    /\ CASE o = "ok" ->
              /\ jobs' = Append(jobs, [workflow |-> call[c].workflow,
                                       status |-> "queued", images |-> <<>>])
              /\ call' = [call EXCEPT ![c].prompt_id = Len(jobs) + 1,
                                      ![c].start_time = now,
                                      ![c].posts = @ + 1,
                                      ![c].pc = "pollcheck"]
         [] o = "http_error" ->
              /\ jobs' = jobs
              /\ call' = [Raise(c, "RuntimeError", "ComfyUI Error")
                            EXCEPT ![c].posts = @ + 1]
         [] o = "conn_error" ->
              /\ jobs' = jobs
              /\ call' = [Raise(c, "RuntimeError", "Could not connect to ComfyUI")
                            EXCEPT ![c].posts = @ + 1]
         [] o = "bad_body" ->
              /\ jobs' = jobs
              /\ call' = [Raise(c, "KeyError", "prompt_id")
                            EXCEPT ![c].posts = @ + 1]
         [] OTHER ->
              /\ jobs' = jobs
              /\ call' = [call EXCEPT ![c].posts = @ + 1, ![c].pc = "blocked"]
    /\ UNCHANGED <<wmvars, now, ticks, inputDir, outputDir, finalDir, hostvars>>

\* faulty variant, for comparison: a timed-out job is submitted again
G_PollCheckResubmit(c) ==
    /\ call[c].pc = "pollcheck"
    /\ IF now - call[c].start_time < Timeout
       THEN call' = [call EXCEPT ![c].pc = "get"]
       ELSE call' = [call EXCEPT ![c].pc = "submit"]
    /\ UNCHANGED <<wmvars, envvars, hostvars>>

\* line 111 and 127: the loop condition, and the TimeoutError after the loop
G_PollCheck(c) ==
    /\ call[c].pc = "pollcheck"
    /\ IF now - call[c].start_time < Timeout
       THEN call' = [call EXCEPT ![c].pc = "get"]
       ELSE call' = Raise(c, "TimeoutError", "Image generation timed out.")
    /\ UNCHANGED <<wmvars, envvars, hostvars>>

\* the filename of the first image of type "output", <<>> if there is none
RECURSIVE FirstOutput(_)
FirstOutput(images) ==
    IF images = <<>> THEN <<>>
    ELSE IF Head(images).type = "output" THEN Head(images).filename
         ELSE FirstOutput(Tail(images))

\* faulty variant, for comparison: a poll that fails raises out of the loop
G_GetFatal(c, o) ==
    /\ call[c].pc = "get"
    /\ CASE o = "answer" ->
              LET j == call[c].prompt_id
                  fn == IF jobs[j].status = "done"
                        THEN FirstOutput(jobs[j].images) ELSE <<>>
                  seen == IF jobs[j].status = "done" THEN "present" ELSE "absent"
              IN  IF fn # <<>>
                  THEN call' = [call EXCEPT ![c].generated_filename = fn,
                                            ![c].last_poll = seen,
                                            ![c].pc = "retrieve"]
                  ELSE call' = [call EXCEPT ![c].last_poll = seen,
                                            ![c].pc = "sleep"]
         [] o = "transient" ->
              call' = [Raise(c, "ConnectionError", "poll failed")
                          EXCEPT ![c].last_poll = "failed"]
         [] OTHER ->
              call' = [call EXCEPT ![c].pc = "blocked"]
    /\ UNCHANGED <<wmvars, envvars, hostvars>>

\* lines 112-124: one GET /history/{prompt_id}; requests.get is given no
\* timeout; any exception is swallowed
G_Get(c, o) ==
    /\ call[c].pc = "get"
    /\ CASE o = "answer" ->
              LET j == call[c].prompt_id
                  fn == IF jobs[j].status = "done"
                        THEN FirstOutput(jobs[j].images) ELSE <<>>
                  seen == IF jobs[j].status = "done" THEN "present" ELSE "absent"
              IN  IF fn # <<>>
                  THEN call' = [call EXCEPT ![c].generated_filename = fn,
                                            ![c].last_poll = seen,
                                            ![c].pc = "retrieve"]
                  ELSE call' = [call EXCEPT ![c].last_poll = seen,
                                            ![c].pc = "sleep"]
         [] o = "transient" ->
              call' = [call EXCEPT ![c].last_poll = "failed", ![c].pc = "sleep"]
         [] OTHER ->
              call' = [call EXCEPT ![c].pc = "blocked"]
    /\ UNCHANGED <<wmvars, envvars, hostvars>>

\* line 125: time.sleep(1)
G_Sleep(c) ==
    /\ call[c].pc = "sleep"
    /\ call' = [call EXCEPT ![c].pc = "pollcheck"]
    /\ UNCHANGED <<wmvars, envvars, hostvars>>

\* faulty variant, for comparison: the failure to delete the engine-side
\* original propagates
G_RetrieveStrict(c, src, copy_ok, unlink_ok) ==
    /\ call[c].pc = "retrieve"
    /\ LET exact == {f \in outputDir : FileName(f) = call[c].generated_filename}
           candidates == {f \in outputDir : StartsWith(FileName(f), call[c].temp_prefix)}
           found == IF exact # {} THEN exact ELSE candidates
           destination == FinalOutputPath(call[c].number)
       IN  IF found = {}
           THEN /\ src = OutFile(<<>>, 0, "", "") /\ copy_ok /\ unlink_ok
                /\ call' = Raise(c, "RuntimeError", "Generated file missing")
                /\ UNCHANGED <<outputDir, finalDir>>
           ELSE /\ src \in found
                /\ IF copy_ok
                   THEN /\ finalDir' = [finalDir EXCEPT ![destination] = src.content]
                        /\ outputDir' = IF unlink_ok THEN outputDir \ {src} ELSE outputDir
                        /\ call' = IF unlink_ok
                                   THEN [call EXCEPT ![c].ret = destination,
                                                     ![c].pc = "cleanup"]
                                   ELSE Raise(c, "OSError", "unlink failed")
                   ELSE /\ unlink_ok
                        /\ finalDir' = [finalDir EXCEPT ![destination] = "partial"]
                        /\ outputDir' = outputDir
                        /\ call' = Raise(c, "OSError", "copy failed")
    /\ UNCHANGED <<wmvars, now, ticks, inputDir, jobs, hostvars>>

\* lines 80-82, 129-152: _retrieve_result; src is the file taken (the exact
\* name, else any file of the prefix glob, whose order is arbitrary)
G_Retrieve(c, src, copy_ok, unlink_ok) ==
    /\ call[c].pc = "retrieve"
    /\ LET exact == {f \in outputDir : FileName(f) = call[c].generated_filename}
           candidates == {f \in outputDir : StartsWith(FileName(f), call[c].temp_prefix)}
           found == IF exact # {} THEN exact ELSE candidates
           destination == FinalOutputPath(call[c].number)
       IN  IF found = {}
           THEN /\ src = OutFile(<<>>, 0, "", "") /\ copy_ok /\ unlink_ok
                /\ call' = Raise(c, "RuntimeError", "Generated file missing")
                /\ UNCHANGED <<outputDir, finalDir>>
           ELSE /\ src \in found
                /\ IF copy_ok
                   THEN /\ finalDir' = [finalDir EXCEPT ![destination] = src.content]
                        /\ outputDir' = IF unlink_ok THEN outputDir \ {src} ELSE outputDir
                        /\ call' = [call EXCEPT ![c].ret = destination,
                                                ![c].pc = "cleanup"]
                   ELSE /\ unlink_ok
                        /\ finalDir' = [finalDir EXCEPT ![destination] = "partial"]
                        /\ outputDir' = outputDir
                        /\ call' = Raise(c, "OSError", "copy failed")
    /\ UNCHANGED <<wmvars, now, ticks, inputDir, jobs, hostvars>>

\* lines 84-90: the finally block, then the return or the propagating error
G_Cleanup(c, unlink_ok) ==
    /\ call[c].pc = "cleanup"
    /\ IF call[c].comfy_input_path # <<>> /\ inputDir[call[c].comfy_input_path] # "absent"
       THEN inputDir' = IF unlink_ok
                        THEN [inputDir EXCEPT ![call[c].comfy_input_path] = "absent"]
                        ELSE inputDir
       ELSE unlink_ok /\ inputDir' = inputDir
    /\ call' = [call EXCEPT ![c].pc = "done", ![c].workflow = <<>>]
    /\ UNCHANGED <<wmvars, now, ticks, outputDir, finalDir, jobs, hostvars>>

-----------------------------------------------------------------------------
(* The environment: the engine and the clock                               *)

SetMax(S) == CHOOSE x \in S : \A y \in S : y <= x

\* the engine runs a queued job: it saves under the graph's filename_prefix
\* with the next free counter and records the job in its history
EngineRun(j, kind) ==
    /\ j \in 1..Len(jobs)
    /\ jobs[j].status = "queued"
    /\ IF "126" \in DOMAIN jobs[j].workflow
       THEN LET pre == jobs[j].workflow["126"].inputs["filename_prefix"].s
                cnt == 1 + SetMax({f.counter : f \in {x \in outputDir : x.prefix = pre}} \cup {0})
                nominal == pre \o <<ToString(cnt), "">>
                outimg == [filename |-> nominal, type |-> "output"]
                tmpimg == [filename |-> pre \o <<"preview", "">>, type |-> "temp"]
            IN  /\ outputDir' =
                     CASE kind \in {"ok", "temp_first"} ->
                            outputDir \cup {OutFile(pre, cnt, "", JobContent(j))}
                       [] kind = "mangled" ->
                            outputDir \cup {OutFile(pre, cnt, "x", JobContent(j))}
                       [] OTHER -> outputDir
                /\ jobs' = [jobs EXCEPT ![j].status = "done",
                              ![j].images =
                                  CASE kind = "temp_first" -> <<tmpimg, outimg>>
                                    [] kind = "no_outputs" -> <<>>
                                    [] OTHER -> <<outimg>>]
       ELSE /\ kind = "no_outputs"
            /\ outputDir' = outputDir
            /\ jobs' = [jobs EXCEPT ![j].status = "done"]
    /\ UNCHANGED <<wmvars, call, now, ticks, inputDir, finalDir, hostvars>>

\* the clock advances by one second or by one second less than the timeout
TickSteps == {1, Timeout - 1}

Tick(d) ==
    /\ ticks < MaxTicks
    /\ now' = now + d
    /\ ticks' = ticks + 1
    /\ UNCHANGED <<wmvars, call, inputDir, outputDir, finalDir, jobs, hostvars>>

-----------------------------------------------------------------------------
(* What the environment may do in a specification: the outcomes of the     *)
(* file operations and of the engine, the seeds and the clock steps        *)

AllOutcomes ==
    [stage |-> StageOutcomes, seeds |-> Seeds, post |-> PostOutcomes,
     get |-> GetOutcomes, copy |-> BOOLEAN, unlink |-> BOOLEAN,
     kinds |-> RunKinds, ticks |-> TickSteps]

\* for two invocations at once: no failing file operation, one seed, an
\* engine that answers, one-second clock steps
FewOutcomes ==
    [stage |-> {"ok"}, seeds |-> {1}, post |-> {"ok", "http_error", "conn_error"},
     get |-> {"answer"}, copy |-> {TRUE}, unlink |-> {TRUE},
     kinds |-> {"ok", "mangled"}, ticks |-> {1}]

NoFile == OutFile(<<>>, 0, "", "")

\* the steps of invocation c after its entry
Step(c, O) ==
    \/ \E o \in O.stage : G_Stage(c, o)
    \/ \E seed \in O.seeds : G_Instantiate(c, seed)
    \/ \E o \in O.post : G_Submit(c, o)
    \/ G_PollCheck(c)
    \/ \E o \in O.get : G_Get(c, o)
    \/ G_Sleep(c)
    \/ \E src \in outputDir \cup {NoFile}, copy_ok \in O.copy, unlink_ok \in O.unlink :
          G_Retrieve(c, src, copy_ok, unlink_ok)
    \/ \E unlink_ok \in O.unlink : G_Cleanup(c, unlink_ok)

Environment(O) ==
    \/ \E j \in 1..Len(jobs), kind \in O.kinds : EngineRun(j, kind)
    \/ \E d \in O.ticks : Tick(d)

-----------------------------------------------------------------------------
(* Spec: one invocation of generate_image, any environment                 *)

SeqCalls == {1}

Init ==
    /\ \E tpl \in OrchTemplates : LoadBaseWorkflow(tpl)
    /\ CwInit
    /\ OrchInit

Next ==
    \/ \E c \in SeqCalls :
          \/ \E r \in Requests : G_Enter(c, r)
          \/ Step(c, AllOutcomes)
    \/ Environment(AllOutcomes)

Spec == Init /\ [][Next]_vars

-----------------------------------------------------------------------------
(* SpecConc: two invocations at once (worker threads, or server processes  *)
(* sharing the engine directories)                                         *)

ConcRequests ==
    { Req(<<"cozy", "loft">>, PathA, 1024, "style"),
      Req(<<"cozy", "loft">>, PathB, 1024, "style") }

InitConc ==
    /\ LoadBaseWorkflow(TplBase)
    /\ CwInit
    /\ OrchInit
    /\ inputDir = [nm \in StagedNames |-> "absent"]

\* the invocations are interchangeable: the second enters no earlier than the first
NextConc ==
    \/ \E c \in Calls :
          \/ \E r \in ConcRequests :
                (c = 1 \/ call[1].pc # "idle") /\ G_Enter(c, r)
          \/ Step(c, FewOutcomes)
    \/ Environment(FewOutcomes)

SpecConc == InitConc /\ [][NextConc]_vars

-----------------------------------------------------------------------------
(* SpecHost: the FastAPI application.  Its handlers are coroutines that    *)
(* call the blocking generate_image without awaiting, so a handler keeps   *)
(* the event loop from its first statement to its return.                  *)

\* main.py lines 135-143: the handler starts and calls comfyui.generate_image
HostDispatch(c, r) ==
    /\ loop = 0
    /\ ~response[c].sent
    /\ Enter(c, r)
    /\ loop' = c
    /\ UNCHANGED <<wmvars, envvars, response, health>>

\* faulty variant, for comparison: the handler catches RuntimeError alone,
\* any other exception leaves it without a response
HostRespondNarrow(c) ==
    /\ loop = c
    /\ call[c].pc = "done"
    /\ response' = [response EXCEPT ![c] =
            IF call[c].exc = ""
            THEN Response(TRUE, "", call[c].ret)
            ELSE IF call[c].exc = "RuntimeError"
                 THEN Response(FALSE, call[c].msg, <<>>)
                 ELSE response[c]]
    /\ loop' = 0
    /\ UNCHANGED <<wmvars, call, envvars, health>>

\* main.py lines 145-158: metadata and the success response, or the
\* except branch with error = str(e)
HostRespond(c) ==
    /\ loop = c
    /\ call[c].pc = "done"
    /\ response' = [response EXCEPT ![c] =
            IF call[c].exc = ""
            THEN Response(TRUE, "", call[c].ret)
            ELSE Response(FALSE, call[c].msg, <<>>)]
    /\ loop' = 0
    /\ UNCHANGED <<wmvars, call, envvars, health>>

\* main.py lines 226-228
HostHealth ==
    /\ loop = 0
    /\ health < MaxHealth
    /\ health' = health + 1
    /\ UNCHANGED <<wmvars, call, envvars, loop, response>>

NextHost ==
    \/ \E c \in SeqCalls :
          \/ \E r \in Requests : HostDispatch(c, r)
          \/ loop = c /\ Step(c, AllOutcomes)
          \/ HostRespond(c)
    \/ HostHealth
    \/ Environment(AllOutcomes)

SpecHost == Init /\ [][NextHost]_vars

-----------------------------------------------------------------------------
(* Properties of ComfyUI.generate_image and of the host                    *)

Ended(c) == call[c].pc = "done"
InFlight(c) == call[c].pc \notin {"idle", "done"}

\* between the return of _copy_to_comfy_input and the finally block
HoldsStagedCopy(c) ==
    /\ call[c].pc \in {"instantiate", "submit", "pollcheck", "get", "sleep",
                       "retrieve", "cleanup", "blocked"}
    /\ call[c].comfy_input_path # <<>>

\* C1: once a call has ended, the engine input directory holds no file,
\* whole or partial, that staging wrote under the input artifact's name.
C1_StagedCopyRemoved ==
    \A c \in Calls :
        Ended(c) => inputDir[Name(call[c].input_image_path)] \notin {"staged", "partial"}

\* C2: a call that has started and not ended can always take a next step,
\* whatever the engine did: it is never left waiting without a deadline.
C2_CallNeverStuck ==
    \A c \in SeqCalls :
        InFlight(c) => ENABLED Step(c, AllOutcomes)

\* C3: from a call's Stage step to its own Cleanup step the copy it staged
\* is present in the engine input directory.
C3_StagedCopyStaysUntilOwnCleanup ==
    \A c \in Calls :
        HoldsStagedCopy(c) => inputDir[call[c].comfy_input_path] = "staged"

\* C4: two calls in flight whose input names share the suffix never hold the
\* same temp_prefix.
C4_TempPrefixUnique ==
    \A c, d \in Calls :
        (c # d /\ InFlight(c) /\ InFlight(d) /\ call[c].number = call[d].number)
        => call[c].temp_prefix # call[d].temp_prefix

\* C5: while a /generate-image request sleeps between two polls, the host
\* can answer /health and can start a /generate-image request that waits.
C5_PollingDoesNotBlockHost ==
    \A c \in Calls :
        call[c].pc = "sleep" =>
            /\ health < MaxHealth => ENABLED HostHealth
            /\ \A d \in Calls \ {c} :
                  (call[d].pc = "idle" /\ ~response[d].sent)
                  => ENABLED (\E r \in Requests : HostDispatch(d, r))

\* the call was submitted and its job never appeared in the engine's history
NeverInHistory(c) ==
    /\ call[c].prompt_id # 0
    /\ jobs[call[c].prompt_id].status = "queued"

\* C12: a call that has ended after a successful submission whose job never
\* appeared in the history has failed with TimeoutError, returned no path,
\* left the final destination unwritten, and its staged copy is gone.
C12_TimeoutScenario ==
    \A c \in SeqCalls :
        (Ended(c) /\ NeverInHistory(c)) =>
            /\ call[c].exc = "TimeoutError"
            /\ call[c].ret = <<>>
            /\ finalDir[FinalOutputPath(call[c].number)] = "absent"
            /\ inputDir[call[c].comfy_input_path] # "staged"

\* the invocation with locals v is inside _wait_for_generation
Polling(v) ==
    \/ v.pc \in {"pollcheck", "get", "sleep"}
    \/ v.pc = "blocked" /\ v.prompt_id # 0

\* C13: a call leaves the polling loop only with the output filename found
\* or with TimeoutError once the budget is used up; after the sleep that
\* follows a poll the loop condition is tested, and while the budget lasts
\* the test is followed by another poll.
C13_PollFailureNotFatal ==
    [][\A c \in SeqCalls :
        /\ (Polling(call[c]) /\ ~Polling(call'[c])) =>
              \/ /\ call'[c].pc = "retrieve"
                 /\ call'[c].generated_filename # <<>>
                 /\ call'[c].exc = ""
              \/ /\ call'[c].exc = "TimeoutError"
                 /\ now - call[c].start_time >= Timeout
        /\ (call[c].pc = "sleep" /\ call'[c] # call[c]) =>
              call'[c].pc = "pollcheck"
        /\ (call[c].pc = "pollcheck" /\ call'[c] # call[c]
                /\ now - call[c].start_time < Timeout) =>
              call'[c].pc = "get"
      ]_vars

\* a poll has failed and the call is about to poll again
C13_Witness ==
    \E c \in SeqCalls :
        /\ call[c].pc = "get"
        /\ call[c].last_poll = "failed"
        /\ now - call[c].start_time < Timeout

\* C14: a call reaches retrieval only after a history answer that held its
\* job id, with the filename of the job's first image of type "output"; and
\* after a history answer that held its job id the call is not polling any
\* more.
C14_HistoryEntryEndsPolling ==
    \A c \in SeqCalls :
        /\ call[c].pc = "retrieve" =>
              /\ call[c].last_poll = "present"
              /\ call[c].generated_filename = FirstOutput(jobs[call[c].prompt_id].images)
        /\ call[c].last_poll = "present" =>
              call[c].pc \notin {"pollcheck", "get", "sleep"}

\* the invocation with locals v has left submission and polling for good:
\* the filename is known (Completed), or an error is on its way out
Terminal(v) == v.pc \in {"retrieve", "cleanup", "done"}

\* C15: a call issues POST /prompt at most once; once it is terminal it
\* stays terminal, issues no further POST, and no job is added to the engine.
C15_NoAutomaticRetry ==
    /\ [](\A c \in SeqCalls : call[c].posts <= 1)
    /\ [][\A c \in SeqCalls :
            Terminal(call[c]) =>
                /\ Terminal(call'[c])
                /\ call'[c].posts = call[c].posts
                /\ call'[c].prompt_id = call[c].prompt_id
                /\ Len(jobs') = Len(jobs)
         ]_vars

\* a call has ended in the timeout a retry could have followed
C15_Witness ==
    \E c \in SeqCalls :
        /\ Ended(c)
        /\ call[c].posts = 1
        /\ call[c].exc = "TimeoutError"

\* _queue_prompt of call c has raised
SubmitFailed(c) ==
    /\ call[c].posts = 1
    /\ call[c].prompt_id = 0
    /\ call[c].pc \in {"cleanup", "done"}

\* C16: a failed submission carries one of the two messages of
\* _queue_prompt, and two failed submissions with different messages (the
\* HTTP error and the refused connection) carry different exception classes.
C16_SubmissionErrorCategories ==
    \A c \in Calls :
        SubmitFailed(c) =>
            /\ call[c].msg \in {"ComfyUI Error", "Could not connect to ComfyUI"}
            /\ \A d \in Calls :
                  (SubmitFailed(d) /\ call[d].msg # call[c].msg)
                  => call[d].exc # call[c].exc

\* C17: a call on an input path that does not exist has ended with
\* FileNotFoundError, and nothing was staged, instantiated, submitted or
\* written: the engine's directories, its jobs and the final directory are
\* as they were before the call.
C17_InputNotFoundNoSideEffect ==
    \A c \in SeqCalls :
        (call[c].pc # "idle" /\ ~Exists(call[c].input_image_path)) =>
            /\ call[c].pc = "done"
            /\ call[c].exc = "FileNotFoundError"
            /\ call[c].ret = <<>>
            /\ call[c].comfy_input_path = <<>>
            /\ call[c].workflow = <<>>
            /\ call[c].posts = 0
            /\ \A nm \in StagedNames : inputDir[nm] \in {"absent", "foreign"}
            /\ DOMAIN topdict = {base_workflow}
            /\ jobs = <<>>
            /\ outputDir = {}
            /\ \A nm \in FinalNames : finalDir[nm] = "absent"

C17_Witness ==
    \E c \in SeqCalls :
        /\ Ended(c)
        /\ call[c].input_image_path = PathZ
        /\ call[c].exc = "FileNotFoundError"

\* the files of the output directory under the reported name, and those the
\* engine wrote under the call's temporary prefix
ExactFiles(c) == {f \in outputDir : FileName(f) = call[c].generated_filename}
PrefixFiles(c) == {f \in outputDir : f.prefix = call[c].temp_prefix}

C19_ArtifactMissing ==
    /\ [][\A c \in SeqCalls :
            ( /\ call[c].pc = "retrieve"
              /\ call'[c] # call[c]
              /\ ExactFiles(c) = {}
              /\ PrefixFiles(c) = {} ) =>
                /\ call'[c].exc = "RuntimeError"
                /\ call'[c].msg = "Generated file missing"
         ]_vars
    /\ [](\A c \in SeqCalls :
            (Ended(c) /\ call[c].msg = "Generated file missing") =>
                /\ call[c].ret = <<>>
                /\ finalDir[FinalOutputPath(call[c].number)] = "absent"
                /\ inputDir[call[c].comfy_input_path] # "staged")

\* a file is there in full
Whole(content) == content \notin {"absent", "partial"}

\* C20: a call that holds a return path finds the artifact in full at that
\* path; the retrieval step that copied the artifact in full returns the
\* destination, whether or not the engine-side original could be deleted;
\* and the step removes a file from the output directory only when it has
\* copied that very file in full to the destination.
C20_ArtifactPresentOnReturn ==
    /\ [](\A c \in SeqCalls :
            call[c].ret # <<>> =>
                /\ call[c].exc = ""
                /\ Whole(finalDir[call[c].ret]))
    /\ [][\A c \in SeqCalls :
            (call[c].pc = "retrieve" /\ call'[c] # call[c]) =>
                LET destination == FinalOutputPath(call[c].number)
                IN  /\ Whole(finalDir'[destination]) =>
                          /\ call'[c].ret = destination
                          /\ call'[c].exc = ""
                    /\ outputDir' # outputDir =>
                          \E f \in outputDir \ outputDir' :
                              finalDir'[destination] = f.content
         ]_vars

\* the call has returned the path although the engine-side original, under
\* the reported name, could not be deleted
C20_Witness ==
    \E c \in SeqCalls :
        /\ Ended(c)
        /\ call[c].ret = FinalOutputPath(call[c].number)
        /\ \E f \in ExactFiles(c) : finalDir[call[c].ret] = f.content

-----------------------------------------------------------------------------
(* Properties of WorkflowManager.create_custom_workflow (SpecWM)           *)

Returned(c) == cwpc[c] = "returned"
Result(c) == Deref(workflow[c])
HasExpectedNodes(g) == ExpectedKeys \subseteq DOMAIN g

\* C6: on a template holding the expected nodes, a call with the native
\* target resolution returns a graph without node 131 whose node 126 reads
\* [26, 0]; with any other target resolution node 131 is present, its
\* factor f satisfies f * 1024 = target, and node 126 reads [131, 0].
C6_TopologyInvariant ==
    \A c \in Callers :
        HasExpectedNodes(loaded) =>
            /\ cwpc[c] # "raised"
            /\ Returned(c) =>
                 LET g == Result(c)
                     t == cwargs[c].target_resolution
                 IN  IF t = BaseRes
                     THEN /\ "131" \notin DOMAIN g
                          /\ g["126"].inputs["images"] = Ref("26", 0)
                     ELSE /\ "131" \in DOMAIN g
                          /\ g["131"].inputs["factor"].kind = "num"
                          /\ g["131"].inputs["factor"].n * BaseRes
                               = t * g["131"].inputs["factor"].d
                          /\ g["126"].inputs["images"] = Ref("131", 0)

C6_Witness ==
    \E c \in Callers :
        /\ Returned(c) /\ HasExpectedNodes(loaded)
        /\ cwargs[c].target_resolution = 2048
        /\ "131" \in DOMAIN Result(c)
        /\ Result(c)["131"].inputs["factor"].n = 2

\* C7: when every input reference of the template resolves, every input
\* reference of the returned graph names a node of the returned graph.
C7_NoDanglingReference ==
    \A c \in Callers :
        (Returned(c) /\ NoDangling(loaded)) => NoDangling(Result(c))

RewireTarget(t) == IF IsBaseRes(t) THEN "26" ELSE "131"

C9_MissingNodeNeverReturns ==
    \A c \in Callers : ~HasExpectedNodes(loaded) => ~Returned(c)

\* C10: the template object holds, node by node and slot by slot, the graph
\* loaded at construction, in every state.
C10_TemplateNeverMutated ==
    Deref(base_workflow) = loaded

C10_Witness ==
    \E c \in Callers :
        /\ Returned(c)
        /\ "131" \in DOMAIN loaded
        /\ "131" \notin DOMAIN Result(c)
        /\ Result(c)["22"].inputs["text"] # loaded["22"].inputs["text"]

-----------------------------------------------------------------------------
(* Properties of concurrent create_custom_workflow calls (SpecWMConc)      *)

\* what the call of caller c yields when it runs alone, for each seed
Alone(c) == {CreateCustomWorkflow(loaded, cwargs[c], seed) : seed \in Seeds}

\* the node objects the top-level dict object id holds
NodesOf(id) == {topdict[id][k] : k \in DOMAIN topdict[id]}

\* C11: in every interleaving of two calls, a call that has returned holds
\* the graph it returns when run alone with some seed, a call that has
\* raised raises when run alone, and the dict a call works on shares no node
\* object with the template or with the dict of the other call.
C11_ConcurrentCallsIndependent ==
    \A c \in Callers :
        /\ Returned(c) => \E r \in Alone(c) : ~r.raised /\ r.g = Result(c)
        /\ cwpc[c] = "raised" => \E r \in Alone(c) : r.raised
        /\ workflow[c] # NoneObj =>
              /\ NodesOf(workflow[c]) \cap NodesOf(base_workflow) = {}
              /\ \A d \in Callers \ {c} :
                    workflow[d] # NoneObj =>
                        NodesOf(workflow[c]) \cap NodesOf(workflow[d]) = {}

\* both calls have returned, with different arguments, after running interleaved
C11_Witness ==
    /\ Returned(1) /\ Returned(2)
    /\ cwargs[1].target_resolution = 1024 /\ cwargs[2].target_resolution = 2048
    /\ "131" \in DOMAIN loaded
    /\ "131" \notin DOMAIN Result(1) /\ "131" \in DOMAIN Result(2)
    /\ Result(1)["2"].inputs["image"] # Result(2)["2"].inputs["image"]

-----------------------------------------------------------------------------
(* Properties of the values create_custom_workflow binds (SpecWM)          *)

\* the number in slot sl of node k of graph g, as <<numerator, denominator>>
NumAt(g, k, sl) == <<g[k].inputs[sl].n, g[k].inputs[sl].d>>

\* C21: on a template holding the expected nodes, the returned graph
\* carries on nodes 10, 17 and 216 the strength, and on node 25 the denoise,
\* of its task type: 0.08 / 0.90 for add, replace, furniture; 0.10 / 0.85
\* for material, surface; 0.12 / 0.85 for anything else.
C21_ControlStrength ==
    \A c \in Callers :
        (Returned(c) /\ HasExpectedNodes(loaded)) =>
            LET g == Result(c)
                tt == cwargs[c].task_type
                strength == IF tt \in {"add", "replace", "furniture"} THEN <<2, 25>>
                            ELSE IF tt \in {"material", "surface"} THEN <<1, 10>>
                            ELSE <<3, 25>>
                denoise == IF tt \in {"add", "replace", "furniture"} THEN <<9, 10>>
                           ELSE <<17, 20>>
            IN  /\ \A k \in {"10", "17", "216"} :
                      /\ g[k].inputs["strength"].kind = "num"
                      /\ NumAt(g, k, "strength") = strength
                /\ g["25"].inputs["denoise"].kind = "num"
                /\ NumAt(g, "25", "denoise") = denoise

C21_Witness ==
    \E c \in Callers :
        /\ Returned(c) /\ HasExpectedNodes(loaded)
        /\ cwargs[c].task_type = "furniture"
        /\ NumAt(Result(c), "216", "strength") = <<2, 25>>
        /\ NumAt(Result(c), "25", "denoise") = <<9, 10>>
        /\ NumAt(loaded, "216", "strength") = <<1, 1>>

\* C22 as stated: on a template holding the expected nodes, a call with
\* target resolution 1023, 1024 or 1025 returns a graph without node 131
\* whose node 126 reads [26, 0], and a call with any other target
\* resolution returns a graph with node 131.
C22_ElidedWithinTolerance ==
    \A c \in Callers :
        (Returned(c) /\ HasExpectedNodes(loaded)) =>
            LET g == Result(c)
                t == cwargs[c].target_resolution
            IN  IF t \in {1023, 1024, 1025}
                THEN /\ "131" \notin DOMAIN g
                     /\ g["126"].inputs["images"] = Ref("26", 0)
                ELSE "131" \in DOMAIN g

\* C22 amended: node 131 is removed, and node 126 wired to [26, 0], for
\* target resolution 1024 alone; for every other integer, 1023 and 1025
\* included, node 131 is kept and node 126 reads [131, 0].
C22_ElidedOnlyAtBaseRes ==
    \A c \in Callers :
        (Returned(c) /\ HasExpectedNodes(loaded)) =>
            LET g == Result(c)
                t == cwargs[c].target_resolution
            IN  IF t = 1024
                THEN /\ "131" \notin DOMAIN g
                     /\ g["126"].inputs["images"] = Ref("26", 0)
                ELSE /\ "131" \in DOMAIN g
                     /\ g["126"].inputs["images"] = Ref("131", 0)

C22_Witness ==
    \E c \in Callers :
        /\ Returned(c) /\ HasExpectedNodes(loaded)
        /\ cwargs[c].target_resolution = 1023
        /\ "131" \in DOMAIN Result(c)
        /\ NumAt(Result(c), "131", "factor") = <<1023, 1024>>

\* the call of caller c is past the binding of the node updates
Bound(c) == cwpc[c] \in {"topology", "returned", "raised"}

\* the image at p has no usable shortest side: it cannot be read, or one of
\* its sides is zero or less
Degenerate(p) ==
    \/ ~FileInfo(p).exists
    \/ ~FileInfo(p).readable
    \/ FileInfo(p).w <= 0
    \/ FileInfo(p).h <= 0

\* C23: every call reaches the end of the binding with a factor of non-zero
\* denominator on node 213 (no division by zero), and for an image that
\* cannot be read or has a side of zero that factor is 1.0.
C23_ScaleDegeneracy ==
    \A c \in Callers :
        (Bound(c) /\ "213" \in DOMAIN loaded) =>
            LET g == Deref(workflow[c])
            IN  /\ g["213"].inputs["factor"].kind = "num"
                /\ g["213"].inputs["factor"].d # 0
                /\ Degenerate(cwargs[c].input_image_path) =>
                      NumAt(g, "213", "factor") = <<1, 1>>

\* a call on the image with a zero side has returned
C23_Witness ==
    \E c \in Callers :
        /\ Returned(c)
        /\ "213" \in DOMAIN loaded
        /\ cwargs[c].input_image_path = PathD
        /\ NumAt(Result(c), "213", "factor") = <<1, 1>>

\* the shortest side create_custom_workflow measures for the image at p
ShortestSide(p) ==
    Min2(GetImageDimensions(p)[1], GetImageDimensions(p)[2])

\* 2^k, for the small k used below
RECURSIVE Pow2(_)
Pow2(k) == IF k = 0 THEN 1 ELSE 2 * Pow2(k - 1)

\* the double product s * (1024 / s) is 1024: the exact product
\* 2^(Mantissa + e) + DivError(s) rounds to 2^(Mantissa + e), which it does
\* from above always and from below when it is at most half a unit of the
\* binade below, 2^(e - 1), away
ProductIs1024(s) ==
    \/ DivError(s) >= 0
    \/ 2 * (0 - DivError(s)) <= Pow2(Log2(s))

\* C24 as stated: for an image with shortest side s > 0 the factor bound on
\* node 213 is 1024 / s and s times that factor is 1024; when node 131 is
\* kept its factor f satisfies f * 1024 = target resolution.
C24_ScaleFactorsExact ==
    \A c \in Callers :
        (Returned(c) /\ HasExpectedNodes(loaded)) =>
            LET g == Result(c)
                sh == ShortestSide(cwargs[c].input_image_path)
                t == cwargs[c].target_resolution
            IN  /\ sh > 0 =>
                      /\ NumAt(g, "213", "factor")[1] * sh
                            = 1024 * NumAt(g, "213", "factor")[2]
                      /\ ProductIs1024(sh)
                /\ "131" \in DOMAIN g =>
                      NumAt(g, "131", "factor")[1] * 1024
                        = t * NumAt(g, "131", "factor")[2]

\* C24 amended: the factor bound on node 213 is the double nearest to
\* 1024 / s; s times that factor differs from 1024 by no more than the
\* rounding of the division (half a unit in the last place of the
\* quotient, times s), and is 1024 when the division is exact; when node
\* 131 is kept its factor f satisfies f * 1024 = target resolution.
C24_ScaleFactorsRounded ==
    \A c \in Callers :
        (Returned(c) /\ HasExpectedNodes(loaded)) =>
            LET g == Result(c)
                sh == ShortestSide(cwargs[c].input_image_path)
                t == cwargs[c].target_resolution
            IN  /\ sh > 0 =>
                      /\ NumAt(g, "213", "factor")[1] * sh
                            = 1024 * NumAt(g, "213", "factor")[2]
                      /\ 2 * Abs(DivError(sh)) <= sh
                      /\ DivError(sh) = 0 => ProductIs1024(sh)
                /\ "131" \in DOMAIN g =>
                      NumAt(g, "131", "factor")[1] * 1024
                        = t * NumAt(g, "131", "factor")[2]

\* a call on the 64x49 image with target 2048 has returned: the factor on
\* node 213 is the double nearest to 1024/49, 49 times which is not 1024,
\* and the factor on node 131 is 2
C24_Witness ==
    \E c \in Callers :
        /\ Returned(c) /\ HasExpectedNodes(loaded)
        /\ cwargs[c].input_image_path = PathE
        /\ cwargs[c].target_resolution = 2048
        /\ NumAt(Result(c), "213", "factor") = <<1024, 49>>
        /\ ~ProductIs1024(49)
        /\ NumAt(Result(c), "131", "factor") = <<2, 1>>

-----------------------------------------------------------------------------
(* Purity of create_custom_workflow (SpecWMConc)                           *)

\* the graph g with the seed slot of node 25 blanked
WithoutSeed(g) ==
    IF "25" \in DOMAIN g /\ "seed" \in DOMAIN g["25"].inputs
    THEN SetSlot(g, "25", "seed", Num(Rat(0, 1)))
    ELSE g

\* C25: two calls on the one template that were given the same arguments
\* hold, when both have returned, graphs that are equal node by node and
\* slot by slot once the seed slot of node 25 is set aside.
C25_PureUpToSeed ==
    \A c, d \in Callers :
        (Returned(c) /\ Returned(d) /\ cwargs[c] = cwargs[d]) =>
            WithoutSeed(Result(c)) = WithoutSeed(Result(d))

\* two calls with the same arguments have returned with different seeds
C25_Witness ==
    /\ Returned(1) /\ Returned(2)
    /\ cwargs[1] = cwargs[2]
    /\ "25" \in DOMAIN loaded
    /\ Result(1)["25"].inputs["seed"] # Result(2)["25"].inputs["seed"]
    /\ Result(1) # Result(2)

-----------------------------------------------------------------------------
(* Properties of the /generate-image handler (SpecHost)                    *)

\* C26: the handler of a request whose generate_image call has ended and
\* that no longer holds the event loop has sent a response; the response to
\* a call that raised says success = false with a non-empty error, and a
\* response says success = true only for a call that returned a path,
\* which it carries.
C26_FailuresSurfaced ==
    \A c \in SeqCalls :
        /\ (Ended(c) /\ loop # c) => response[c].sent
        /\ response[c].sent =>
              /\ Ended(c)
              /\ call[c].exc # "" =>
                    /\ ~response[c].success
                    /\ response[c].error # ""
              /\ response[c].success =>
                    /\ call[c].exc = ""
                    /\ call[c].ret # <<>>
                    /\ response[c].image_path = call[c].ret

\* a timed-out generation has been answered with success = false
C26_Witness ==
    \E c \in SeqCalls :
        /\ response[c].sent
        /\ call[c].exc = "TimeoutError"
        /\ ~response[c].success
        /\ response[c].error = "Image generation timed out."

-----------------------------------------------------------------------------
(* Further properties of ComfyUI.generate_image (Spec, SpecConc)           *)

\* C27: a call that has submitted a job has a target resolution above
\* zero, and no job of the engine holds a graph whose node 131 has a factor
\* of zero or less.
C27_SubmittedTargetPositive ==
    /\ \A c \in SeqCalls :
          call[c].prompt_id # 0 => call[c].target_resolution > 0
    /\ \A j \in 1..Len(jobs) :
          "131" \in DOMAIN jobs[j].workflow =>
              jobs[j].workflow["131"].inputs["factor"].n > 0

\* the place of an invocation in the order Validate, Stage, Instantiate,
\* Submit, Poll, Retrieve, Cleanup, end
StepRank(v) ==
    CASE v.pc = "idle" -> 0
      [] v.pc = "stage" -> 1
      [] v.pc = "instantiate" -> 2
      [] v.pc = "submit" -> 3
      [] v.pc \in {"pollcheck", "get", "sleep"} -> 4
      [] v.pc = "blocked" -> IF v.prompt_id # 0 THEN 4 ELSE 3
      [] v.pc = "retrieve" -> 5
      [] v.pc = "cleanup" -> 6
      [] OTHER -> 7

\* C28: a call moves forward through Validate, Stage, Instantiate, Submit,
\* Poll, Retrieve, Cleanup and repeats only inside the polling loop; it
\* posts its graph from the Submit step while its staged copy is in the
\* input directory; while polling it asks for the job its own submission
\* created; it starts retrieval from a poll whose answer held the job with
\* a filename; and it ends from Cleanup, or from Validate without having
\* staged anything.
C28_StepsInOrder ==
    /\ [][\A c \in SeqCalls :
            call'[c] # call[c] =>
                /\ StepRank(call'[c]) >= StepRank(call[c])
                /\ StepRank(call'[c]) = StepRank(call[c]) =>
                      StepRank(call[c]) \in {3, 4}
                /\ call'[c].posts > call[c].posts =>
                      /\ call[c].pc = "submit"
                      /\ call[c].comfy_input_path # <<>>
                      /\ inputDir[call[c].comfy_input_path] = "staged"
                /\ call'[c].pc = "retrieve" =>
                      /\ call[c].pc = "get"
                      /\ call'[c].last_poll = "present"
                      /\ call'[c].generated_filename # <<>>
                /\ call[c].pc = "cleanup" => call'[c].pc = "done"
                /\ call'[c].pc = "done" =>
                      \/ call[c].pc = "cleanup"
                      \/ call[c].pc = "idle" /\ call'[c].exc = "FileNotFoundError"
         ]_vars
    /\ [](\A c \in SeqCalls :
            Polling(call[c]) =>
                /\ call[c].prompt_id \in 1..Len(jobs)
                /\ jobs[call[c].prompt_id].workflow = call[c].workflow)

\* a call has gone through every step and ended with its path
C28_Witness ==
    \E c \in SeqCalls :
        /\ Ended(c)
        /\ call[c].posts = 1
        /\ call[c].last_poll = "present"
        /\ call[c].ret = FinalOutputPath(call[c].number)
        /\ inputDir[call[c].comfy_input_path] = "absent"

\* C29: a call that holds its return path and has not returned yet finds
\* at that path the artifact its own job wrote; and a retrieval step takes
\* from the output directory only a file its own job wrote.
C29_OwnArtifact ==
    /\ [](\A c \in Calls :
            (call[c].pc = "cleanup" /\ call[c].ret # <<>>) =>
                finalDir[call[c].ret] = JobContent(call[c].prompt_id))
    /\ [][\A c \in Calls :
            (call[c].pc = "retrieve" /\ call'[c] # call[c]) =>
                \A f \in outputDir \ outputDir' :
                    f.content = JobContent(call[c].prompt_id)
         ]_vars

\* C30: a file that was in the engine input directory before the call
\* (content "foreign": no step of the program writes that content) is left
\* as it is by every step, so that it is there unchanged when the call has
\* ended.
C30_ForeignInputFileKept ==
    [][\A nm \in StagedNames :
          inputDir[nm] = "foreign" => inputDir'[nm] = "foreign"
      ]_vars

====
